---- MODULE Spec2Model ----
(***************************************************************************)
(* A model of GeoSpatialTools: Record, Rectangle, Ellipse, QuadTree,       *)
(* OctTree, KDTree and find_nearest.                                       *)
(*                                                                         *)
(* Units.  Python computes with floats; the model computes with integers.  *)
(* Every angle (longitude, latitude) is an integer number of 1/Scale       *)
(* degree, so that the halvings of divide() are exact down to the deepest  *)
(* node the bounds allow.  Deg(x) is x degrees in these units.  Distances  *)
(* (haversine, dist, the ellipse axes) are arcs of a great circle in the   *)
(* same unit: one unit is pi * 6371 / (180 * Scale) km.                    *)
(***************************************************************************)
EXTENDS Integers, Sequences, FiniteSets, TLC

VARIABLES
    qtree,      \* the root QuadTree node
    otree,      \* the root OctTree node
    kdtree,     \* the root KDTree node
    fn_vals,    \* find_nearest: the sorted list of values
    shape,      \* the Rectangle under test
    last        \* the last call: its name, arguments and return value

vars == <<qtree, otree, kdtree, fn_vals, shape, last>>

(***************************************************************************)
(* Bounds                                                                  *)
(***************************************************************************)
\* most records a QuadTree / OctTree holds at one time
MaxPoints == 3
\* longest list a KDTree is built from, most records it holds at one time
MaxKDBuild == 3
MaxKDPoints == 4
\* longest list of values / of queries of find_nearest, largest value
MaxLen == 3
MaxVal == 3

\* A node of depth d exists only if d records are stored above it, so with
\* at most MaxPoints records no boundary is halved more than MaxPoints times.
Scale == 2 ^ MaxPoints

Deg(x) == x * Scale

Abs(x) == IF x < 0 THEN 0 - x ELSE x

Max2(x, y) == IF x >= y THEN x ELSE y

\* x / 2 (exact on every value the model halves)
Half(x) == x \div 2

(***************************************************************************)
(* Record                                                                  *)
(***************************************************************************)
\* Python's None, for the optional datetime and uid of a Record
None == "None"

\* ((lon + 540) % 360) - 180
FixLon(lon) == ((lon + Deg(540)) % Deg(360)) - Deg(180)

\* Record.__init__ with fix_lon = True, no datetime
Record(lon, lat, uid) ==
    [lon |-> FixLon(lon), lat |-> lat, datetime |-> None, uid |-> uid]

\* Record.__init__ raises LatitudeError
RecordRaises(lat) == lat < Deg(-90) \/ lat > Deg(90)

\* truthiness of a uid: None and "" are falsy
Truthy(uid) == uid # None /\ uid # ""

\* Record.__eq__
RecordEq(self, other) ==
    IF Truthy(self.uid) /\ Truthy(other.uid)
    THEN self.uid = other.uid
    ELSE /\ self.lon = other.lon
         /\ self.lat = other.lat
         /\ self.datetime = other.datetime
         /\ (~(Truthy(self.uid) \/ Truthy(other.uid)) \/ self.uid = other.uid)

\* point in points
InList(point, points) ==
    \E i \in 1..Len(points) : RecordEq(points[i], point)

(***************************************************************************)
(* Rectangle                                                               *)
(***************************************************************************)
\* Rectangle.__post_init__
Rectangle(west, east, south, north) ==
    [west  |-> IF west > Deg(180) \/ west < Deg(-180) THEN FixLon(west) ELSE west,
     east  |-> IF east > Deg(180) \/ east < Deg(-180) THEN FixLon(east) ELSE east,
     south |-> south,
     north |-> north]

\* Rectangle.__post_init__ raises LatitudeError
RectangleRaises(south, north) == north > Deg(90) \/ south < Deg(-90)

lat_range(r) == r.north - r.south

CentreLat(r) == r.south + Half(lat_range(r))

lon_range(r) ==
    IF r.east < r.west THEN r.east - r.west + Deg(360) ELSE r.east - r.west

CentreLon(r) == FixLon(r.west + Half(lon_range(r)))

_test_east_west(r, lon) ==
    IF lon_range(r) >= Deg(360) THEN TRUE
    ELSE IF r.east > CentreLon(r) /\ r.west < CentreLon(r)
         THEN lon <= r.east /\ lon >= r.west
    ELSE IF r.east < CentreLon(r)
         THEN ~(lon > r.east /\ lon < r.west)
    ELSE IF r.west > CentreLon(r)
         THEN ~(lon < r.east /\ lon > r.west)
    ELSE FALSE

_test_north_south(r, lat) == lat <= r.north /\ lat >= r.south

\* Rectangle.contains
Contains(r, point) ==
    _test_north_south(r, point.lat) /\ _test_east_west(r, point.lon)

\* a faulty Rectangle.intersects: the case "fully contained within other" is
\* left out
IntersectsNoCover(self, other) ==
    IF other.south > self.north THEN FALSE
    ELSE IF other.north < self.south THEN FALSE
    ELSE \/ _test_east_west(self, other.west)
         \/ _test_east_west(self, other.east)

\* Rectangle.intersects
Intersects(self, other) ==
    IF other.south > self.north THEN FALSE
    ELSE IF other.north < self.south THEN FALSE
    ELSE \/ _test_east_west(self, other.west)
         \/ _test_east_west(self, other.east)
         \/ (_test_east_west(other, self.west) /\ _test_east_west(other, self.east))

(***************************************************************************)
(* QuadTree                                                                *)
(***************************************************************************)
\* An optional int (max_depth) is <<>> for None and <<m>> for m.
NoMaxDepth == << >>

\* QuadTree.__init__
QuadTree(boundary, capacity, depth, max_depth) ==
    [boundary  |-> boundary,
     capacity  |-> capacity,
     depth     |-> depth,
     max_depth |-> max_depth,
     points    |-> << >>,
     divided   |-> FALSE,
     children  |-> << >>]

\* a faulty QuadTree.divide: the records of the node are handed to the new
\* north-west child
QDivideHandsDown(self) ==
    LET b == self.boundary
        Child(w, e, s, n) ==
            QuadTree(Rectangle(w, e, s, n), self.capacity, self.depth + 1,
                     self.max_depth)
    IN [self EXCEPT
          !.children = << [Child(b.west, CentreLon(b), CentreLat(b), b.north)
                              EXCEPT !.points = self.points],
                          Child(CentreLon(b), b.east, CentreLat(b), b.north),
                          Child(b.west, CentreLon(b), b.south, CentreLat(b)),
                          Child(CentreLon(b), b.east, b.south, CentreLat(b)) >>,
          !.points = << >>,
          !.divided = TRUE]

\* QuadTree.divide: children <<northwest, northeast, southwest, southeast>>
QDivide(self) ==
    LET b == self.boundary
        Child(w, e, s, n) ==
            QuadTree(Rectangle(w, e, s, n), self.capacity, self.depth + 1,
                     self.max_depth)
    IN [self EXCEPT
          !.children = << Child(b.west, CentreLon(b), CentreLat(b), b.north),
                          Child(CentreLon(b), b.east, CentreLat(b), b.north),
                          Child(b.west, CentreLon(b), b.south, CentreLat(b)),
                          Child(CentreLon(b), b.east, b.south, CentreLat(b)) >>,
          !.divided = TRUE]

\* a faulty test of max_depth: every node down to max_depth passes it
AtMaxDepthOrAbove(self) ==
    /\ self.max_depth # NoMaxDepth
    /\ self.max_depth[1] # 0
    /\ self.depth <= self.max_depth[1]

\* self.max_depth and self.depth == self.max_depth
AtMaxDepth(self) ==
    /\ self.max_depth # NoMaxDepth
    /\ self.max_depth[1] # 0
    /\ self.depth = self.max_depth[1]

RECURSIVE QInsert(_, _)
RECURSIVE QInsertChildren(_, _, _)

\* a faulty chain of child inserts: the record is appended to the north-west
\* child without asking whether its boundary contains the record
QInsertChildrenNoTest(children, i, point) ==
    [ret |-> TRUE,
     children |-> [children EXCEPT ![1].points = Append(@, point)]]

\* the chain "if self.northwest.insert(point) ... elif ..." from child i on
QInsertChildren(children, i, point) ==
    IF i > Len(children) THEN [ret |-> FALSE, children |-> children]
    ELSE LET r == QInsert(children[i], point)
         IN IF r.ret
            THEN [ret |-> TRUE, children |-> [children EXCEPT ![i] = r.tree]]
            ELSE QInsertChildren([children EXCEPT ![i] = r.tree], i + 1, point)

\* a faulty QuadTree.insert: a record handed to a child is also kept by the
\* node itself
QInsertAlsoHere(self, point) ==
    IF ~Contains(self.boundary, point)
    THEN [ret |-> FALSE, tree |-> self]
    ELSE IF AtMaxDepth(self)
    THEN [ret |-> TRUE, tree |-> [self EXCEPT !.points = Append(@, point)]]
    ELSE IF Len(self.points) < self.capacity
    THEN [ret |-> TRUE, tree |-> [self EXCEPT !.points = Append(@, point)]]
    ELSE LET d == IF self.divided THEN self ELSE QDivide(self)
             r == QInsertChildren(d.children, 1, point)
         IN [ret |-> r.ret,
             tree |-> [d EXCEPT !.children = r.children,
                                !.points = IF r.ret THEN Append(@, point) ELSE @]]

\* QuadTree.insert: the return value and the node after the call
QInsert(self, point) ==
    IF ~Contains(self.boundary, point)
    THEN [ret |-> FALSE, tree |-> self]
    ELSE IF AtMaxDepth(self)
    THEN [ret |-> TRUE, tree |-> [self EXCEPT !.points = Append(@, point)]]
    ELSE IF Len(self.points) < self.capacity
    THEN [ret |-> TRUE, tree |-> [self EXCEPT !.points = Append(@, point)]]
    ELSE LET d == IF self.divided THEN self ELSE QDivide(self)
             r == QInsertChildren(d.children, 1, point)
         IN [ret |-> r.ret, tree |-> [d EXCEPT !.children = r.children]]

\* list.remove(point): drops the first element equal to point
RECURSIVE ListRemove(_, _)
ListRemove(points, point) ==
    IF points = << >> THEN << >>
    ELSE IF RecordEq(Head(points), point) THEN Tail(points)
    ELSE << Head(points) >> \o ListRemove(Tail(points), point)

RECURSIVE QRemove(_, _)
RECURSIVE QRemoveChildren(_, _, _)

QRemoveChildren(children, i, point) ==
    IF i > Len(children) THEN [ret |-> FALSE, children |-> children]
    ELSE LET r == QRemove(children[i], point)
         IN IF r.ret
            THEN [ret |-> TRUE, children |-> [children EXCEPT ![i] = r.tree]]
            ELSE QRemoveChildren([children EXCEPT ![i] = r.tree], i + 1, point)

\* a faulty QuadTree.remove: a node whose children hold no record after the
\* removal is merged (its children are dropped)
QRemoveMerges(self, point) ==
    IF ~Contains(self.boundary, point)
    THEN [ret |-> FALSE, tree |-> self]
    ELSE IF InList(point, self.points)
    THEN [ret |-> TRUE,
          tree |-> [self EXCEPT !.points = ListRemove(@, point)]]
    ELSE IF ~self.divided
    THEN [ret |-> FALSE, tree |-> self]
    ELSE LET r == QRemoveChildren(self.children, 1, point)
             empty == \A i \in 1..Len(r.children) :
                          r.children[i].points = << >>
                          /\ ~r.children[i].divided
         IN [ret |-> r.ret,
             tree |-> IF r.ret /\ empty
                      THEN [self EXCEPT !.children = << >>, !.divided = FALSE]
                      ELSE [self EXCEPT !.children = r.children]]

\* QuadTree.remove
QRemove(self, point) ==
    IF ~Contains(self.boundary, point)
    THEN [ret |-> FALSE, tree |-> self]
    ELSE IF InList(point, self.points)
    THEN [ret |-> TRUE,
          tree |-> [self EXCEPT !.points = ListRemove(@, point)]]
    ELSE IF ~self.divided
    THEN [ret |-> FALSE, tree |-> self]
    ELSE LET r == QRemoveChildren(self.children, 1, point)
         IN [ret |-> r.ret, tree |-> [self EXCEPT !.children = r.children]]

\* for point in self.points: if rect.contains(point): points.append(point)
RECURSIVE FilterContains(_, _)
FilterContains(points, rect) ==
    IF points = << >> THEN << >>
    ELSE (IF Contains(rect, Head(points)) THEN << Head(points) >> ELSE << >>)
         \o FilterContains(Tail(points), rect)

RECURSIVE QQuery(_, _, _)
RECURSIVE QQueryChildren(_, _, _, _)

QQueryChildren(children, i, rect, points) ==
    IF i > Len(children) THEN points
    ELSE QQueryChildren(children, i + 1, rect, QQuery(children[i], rect, points))

\* QuadTree.query
QQuery(self, rect, points) ==
    IF ~Intersects(self.boundary, rect) THEN points
    ELSE LET found == points \o FilterContains(self.points, rect)
         IN IF self.divided
            THEN QQueryChildren(self.children, 1, rect, found)
            ELSE found

\* every record stored in the tree, node by node
RECURSIVE AllPoints(_)
RECURSIVE AllPointsOf(_, _)
AllPointsOf(children, i) ==
    IF i > Len(children) THEN << >>
    ELSE AllPoints(children[i]) \o AllPointsOf(children, i + 1)

AllPoints(self) == self.points \o AllPointsOf(self.children, 1)

\* the number of elements of list s that are identical to x
Count(s, x) == Cardinality({i \in 1..Len(s) : s[i] = x})

\* two lists hold the same records the same number of times
SameRecords(s, t) ==
    /\ Len(s) = Len(t)
    /\ \A i \in 1..Len(s) : Count(s, s[i]) = Count(t, s[i])

(***************************************************************************)
(* SpaceTimeRecord, SpaceTimeRectangle, OctTree                            *)
(*                                                                         *)
(* datetime values are numeric (the source allows a pentad, a timestamp or *)
(* a julian day): an integer number of 1/Scale day, so that the halvings   *)
(* of centre_datetime are exact.                                           *)
(***************************************************************************)
\* SpaceTimeRecord.__init__ with fix_lon = True
SpaceTimeRecord(lon, lat, datetime, uid) ==
    [lon |-> FixLon(lon), lat |-> lat, datetime |-> datetime, uid |-> uid]

\* SpaceTimeRectangle.__post_init__: start and end are swapped if end < start
SpaceTimeRectangle(west, east, south, north, start, end) ==
    [west  |-> IF west > Deg(180) \/ west < Deg(-180) THEN FixLon(west) ELSE west,
     east  |-> IF east > Deg(180) \/ east < Deg(-180) THEN FixLon(east) ELSE east,
     south |-> south,
     north |-> north,
     start |-> IF end < start THEN end ELSE start,
     end   |-> IF end < start THEN start ELSE end]

\* SpaceTimeRectangle.__post_init__ warns DateWarning
DateWarns(start, end) == end < start

\* start + (end - start) / 2
centre_datetime(r) == r.start + Half(r.end - r.start)

\* SpaceTimeRectangle.contains
STContains(r, point) ==
    IF point.datetime > r.end \/ point.datetime < r.start THEN FALSE
    ELSE _test_north_south(r, point.lat) /\ _test_east_west(r, point.lon)

\* SpaceTimeRectangle.intersects
STIntersects(self, other) ==
    IF other.end < self.start \/ other.start > self.end THEN FALSE
    ELSE IF other.south > self.north THEN FALSE
    ELSE IF other.north < self.south THEN FALSE
    ELSE \/ _test_east_west(self, other.west)
         \/ _test_east_west(self, other.east)
         \/ (_test_east_west(other, self.west) /\ _test_east_west(other, self.east))

\* OctTree.__init__
OctTree(boundary, capacity, depth, max_depth) ==
    [boundary  |-> boundary,
     capacity  |-> capacity,
     depth     |-> depth,
     max_depth |-> max_depth,
     points    |-> << >>,
     divided   |-> FALSE,
     children  |-> << >>]

\* a faulty OctTree.divide: the back children get the second half of the
\* time range and the fwd children the first half
ODivideBackLate(self) ==
    LET b == self.boundary
        Child(w, e, s, n, t0, t1) ==
            OctTree(SpaceTimeRectangle(w, e, s, n, t0, t1), self.capacity,
                    self.depth + 1, self.max_depth)
        Four(t0, t1) ==
            << Child(b.west, CentreLon(b), CentreLat(b), b.north, t0, t1),
               Child(CentreLon(b), b.east, CentreLat(b), b.north, t0, t1),
               Child(b.west, CentreLon(b), b.south, CentreLat(b), t0, t1),
               Child(CentreLon(b), b.east, b.south, CentreLat(b), t0, t1) >>
    IN [self EXCEPT
          !.children = Four(centre_datetime(b), b.end)
                       \o Four(b.start, centre_datetime(b)),
          !.divided = TRUE]

\* OctTree.divide: children <<northwestback, northeastback, southwestback,
\* southeastback, northwestfwd, northeastfwd, southwestfwd, southeastfwd>>
ODivide(self) ==
    LET b == self.boundary
        Child(w, e, s, n, t0, t1) ==
            OctTree(SpaceTimeRectangle(w, e, s, n, t0, t1), self.capacity,
                    self.depth + 1, self.max_depth)
        Four(t0, t1) ==
            << Child(b.west, CentreLon(b), CentreLat(b), b.north, t0, t1),
               Child(CentreLon(b), b.east, CentreLat(b), b.north, t0, t1),
               Child(b.west, CentreLon(b), b.south, CentreLat(b), t0, t1),
               Child(CentreLon(b), b.east, b.south, CentreLat(b), t0, t1) >>
    IN [self EXCEPT
          !.children = Four(b.start, centre_datetime(b))
                       \o Four(centre_datetime(b), b.end),
          !.divided = TRUE]

\* the order in which OctTree.query and query_ellipse visit the children:
\* the four fwd children, then the four back children
FwdFirst == << 5, 6, 7, 8, 1, 2, 3, 4 >>

RECURSIVE OInsert(_, _)
RECURSIVE OInsertChildren(_, _, _)

\* the chain "if self.northwestback.insert(point) ... elif ..." from child i on
OInsertChildren(children, i, point) ==
    IF i > Len(children) THEN [ret |-> FALSE, children |-> children]
    ELSE LET r == OInsert(children[i], point)
         IN IF r.ret
            THEN [ret |-> TRUE, children |-> [children EXCEPT ![i] = r.tree]]
            ELSE OInsertChildren([children EXCEPT ![i] = r.tree], i + 1, point)

\* OctTree.insert: the return value and the node after the call
OInsert(self, point) ==
    IF ~STContains(self.boundary, point)
    THEN [ret |-> FALSE, tree |-> self]
    ELSE IF AtMaxDepth(self)
    THEN [ret |-> TRUE, tree |-> [self EXCEPT !.points = Append(@, point)]]
    ELSE IF Len(self.points) < self.capacity
    THEN [ret |-> TRUE, tree |-> [self EXCEPT !.points = Append(@, point)]]
    ELSE LET d == IF self.divided THEN self ELSE ODivide(self)
             r == OInsertChildren(d.children, 1, point)
         IN [ret |-> r.ret, tree |-> [d EXCEPT !.children = r.children]]

RECURSIVE ORemove(_, _)
RECURSIVE ORemoveChildren(_, _, _)

ORemoveChildren(children, i, point) ==
    IF i > Len(children) THEN [ret |-> FALSE, children |-> children]
    ELSE LET r == ORemove(children[i], point)
         IN IF r.ret
            THEN [ret |-> TRUE, children |-> [children EXCEPT ![i] = r.tree]]
            ELSE ORemoveChildren([children EXCEPT ![i] = r.tree], i + 1, point)

\* OctTree.remove
ORemove(self, point) ==
    IF ~STContains(self.boundary, point)
    THEN [ret |-> FALSE, tree |-> self]
    ELSE IF InList(point, self.points)
    THEN [ret |-> TRUE,
          tree |-> [self EXCEPT !.points = ListRemove(@, point)]]
    ELSE IF ~self.divided
    THEN [ret |-> FALSE, tree |-> self]
    ELSE LET r == ORemoveChildren(self.children, 1, point)
         IN [ret |-> r.ret, tree |-> [self EXCEPT !.children = r.children]]

\* for point in self.points: if rect.contains(point): points.append(point)
RECURSIVE STFilterContains(_, _)
STFilterContains(points, rect) ==
    IF points = << >> THEN << >>
    ELSE (IF STContains(rect, Head(points)) THEN << Head(points) >> ELSE << >>)
         \o STFilterContains(Tail(points), rect)

RECURSIVE OQuery(_, _, _)
RECURSIVE OQueryChildren(_, _, _, _)

OQueryChildren(children, i, rect, points) ==
    IF i > Len(children) THEN points
    ELSE OQueryChildren(children, i + 1, rect,
                        OQuery(children[FwdFirst[i]], rect, points))

\* OctTree.query
OQuery(self, rect, points) ==
    IF ~STIntersects(self.boundary, rect) THEN points
    ELSE LET found == points \o STFilterContains(self.points, rect)
         IN IF self.divided
            THEN OQueryChildren(self.children, 1, rect, found)
            ELSE found

(***************************************************************************)
(* Geometry kernel: haversine, in fixed point                              *)
(***************************************************************************)
\* the fixed-point scale of a sine: 8 decimal digits, in two halves of 4
TrigHalfScale == 10 ^ 4
TrigScale == TrigHalfScale * TrigHalfScale

\* a * b / TrigScale for 0 <= a, b <= TrigScale, without leaving 32 bits
MulFix(a, b) ==
    LET ah == a \div TrigHalfScale
        al == a % TrigHalfScale
        bh == b \div TrigHalfScale
        bl == b % TrigHalfScale
    IN ah * bh + (ah * bl + al * bh) \div TrigHalfScale + (al * bl) \div TrigScale

\* TrigScale * sin(d degrees) for d = 0 .. 90, at index d + 1
SinTab ==
    << 0, 1745241, 3489950, 5233596, 6975647, 8715574,
       10452846, 12186934, 13917310, 15643447, 17364818, 19080900,
       20791169, 22495105, 24192190, 25881905, 27563736, 29237170,
       30901699, 32556815, 34202014, 35836795, 37460659, 39073113,
       40673664, 42261826, 43837115, 45399050, 46947156, 48480962,
       50000000, 51503807, 52991926, 54463904, 55919290, 57357644,
       58778525, 60181502, 61566148, 62932039, 64278761, 65605903,
       66913061, 68199836, 69465837, 70710678, 71933980, 73135370,
       74314483, 75470958, 76604444, 77714596, 78801075, 79863551,
       80901699, 81915204, 82903757, 83867057, 84804810, 85716730,
       86602540, 87461971, 88294759, 89100652, 89879405, 90630779,
       91354546, 92050485, 92718385, 93358043, 93969262, 94551858,
       95105652, 95630476, 96126170, 96592583, 97029573, 97437006,
       97814760, 98162718, 98480775, 98768834, 99026807, 99254615,
       99452190, 99619470, 99756405, 99862953, 99939083, 99984770,
       100000000 >>

\* TrigScale * pi / 180
RadPerDeg == 1745329

\* TrigScale * sin(h / (2 * Scale) degrees) for 0 <= h <= Deg(180):
\* sin(d + x) = sin d cos x + cos d sin x, with the series of sin x and
\* cos x for the part x of a degree
SinHalf(h) ==
    LET d    == h \div (2 * Scale)
        x    == ((h % (2 * Scale)) * RadPerDeg) \div (2 * Scale)
        xx   == MulFix(x, x)
        sinx == x - MulFix(xx, x) \div 6
        cosx == TrigScale - xx \div 2
    IN IF x = 0 THEN SinTab[d + 1]
       ELSE MulFix(SinTab[d + 1], cosx) + MulFix(SinTab[91 - d], sinx)

\* SinHalf and its square, tabulated once for every angle of the model
SinTable == [h \in 0..Deg(180) |-> SinHalf(h)]

SinSqTable == [h \in 0..Deg(180) |-> MulFix(SinTable[h], SinTable[h])]

\* TrigScale * cos(lat)
CosLat(lat) == SinTable[2 * (Deg(90) - Abs(lat))]

\* TrigScale * (sin^2(dlat / 2) + cos(lat1) cos(lat2) sin^2(dlon / 2))
HavArg(lon1, lat1, lon2, lat2) ==
    LET dlon == Abs(lon2 - lon1) % Deg(360)
        a == SinSqTable[Abs(lat2 - lat1)]
             + MulFix(MulFix(CosLat(lat1), CosLat(lat2)),
                      SinSqTable[IF dlon > Deg(180) THEN Deg(360) - dlon ELSE dlon])
    IN IF a > TrigScale THEN TrigScale ELSE a

\* the angle h in lo .. hi whose sin^2(h / 2) is nearest to a
RECURSIVE ArcHav(_, _, _)
ArcHav(lo, hi, a) ==
    IF hi - lo <= 1
    THEN IF a - SinSqTable[lo] <= SinSqTable[hi] - a THEN lo ELSE hi
    ELSE LET mid == (lo + hi) \div 2
         IN IF SinSqTable[mid] <= a
            THEN ArcHav(mid, hi, a) ELSE ArcHav(lo, mid, a)

\* haversine(lon1, lat1, lon2, lat2) = 2 R asin(sqrt(a)), as an arc in
\* units of 1/Scale degree
Haversine(lon1, lat1, lon2, lat2) ==
    ArcHav(0, Deg(180), HavArg(lon1, lat1, lon2, lat2))

\* Record.distance
Distance(self, other) == Haversine(self.lon, self.lat, other.lon, other.lat)

\* destination(lon, lat, bearing, dist) along a meridian (bearing 0 or 180)
\* and along the equator (bearing 90 or 270 from latitude 0), where the
\* forward formula has a closed form; bearings in whole degrees
Destination(lon, lat, bearing, dist) ==
    CASE bearing = 0   -> [lon |-> lon, lat |-> lat + dist]
      [] bearing = 180 -> [lon |-> lon, lat |-> lat - dist]
      [] bearing = 90 /\ lat = 0  -> [lon |-> lon + dist, lat |-> 0]
      [] bearing = 270 /\ lat = 0 -> [lon |-> lon - dist, lat |-> 0]

\* sqrt(x) for a perfect square x
RECURSIVE SqrtBetween(_, _, _)
SqrtBetween(x, lo, hi) ==
    IF hi - lo <= 1 THEN lo
    ELSE LET mid == (lo + hi) \div 2
         IN IF mid * mid <= x THEN SqrtBetween(x, mid, hi)
            ELSE SqrtBetween(x, lo, mid)

Sqrt(x) == SqrtBetween(x, 0, Deg(360))

(***************************************************************************)
(* Rectangle: distances                                                    *)
(***************************************************************************)
\* Rectangle.edge_dist
edge_dist(r) ==
    LET corner_dist ==
            Max2(Haversine(CentreLon(r), CentreLat(r), r.east, r.north),
                 Haversine(CentreLon(r), CentreLat(r), r.east, r.south))
    IN IF r.north * r.south < 0
       THEN Max2(corner_dist, Haversine(CentreLon(r), CentreLat(r), r.east, 0))
       ELSE corner_dist

\* Rectangle.nearby
Nearby(r, point, dist) ==
    Haversine(CentreLon(r), CentreLat(r), point.lon, point.lat)
        <= dist + edge_dist(r)

(***************************************************************************)
(* Ellipse                                                                 *)
(***************************************************************************)
\* Ellipse.__init__; theta is given in whole degrees (degrees(theta))
Ellipse(lon, lat, a, b, theta) ==
    LET lon0    == IF lon > Deg(180) THEN FixLon(lon) ELSE lon
        bearing == (90 - theta) % 360
        c       == Sqrt(a * a - b * b)
        p1      == Destination(lon0, lat, bearing, c)
        p2      == Destination(lon0, lat, (bearing - 180) % 360, c)
    IN [a |-> a, b |-> b, lon |-> lon0, lat |-> lat, theta |-> theta,
        bearing |-> bearing, c |-> c,
        p1_lon |-> p1.lon, p1_lat |-> p1.lat,
        p2_lon |-> p2.lon, p2_lat |-> p2.lat]

\* Ellipse.contains
EllipseContains(e, point) ==
    Haversine(e.p1_lon, e.p1_lat, point.lon, point.lat)
        + Haversine(e.p2_lon, e.p2_lat, point.lon, point.lat) <= 2 * e.a

\* Ellipse.nearby_rect
nearby_rect(e, rect) ==
    /\ Haversine(e.p1_lon, e.p1_lat, CentreLon(rect), CentreLat(rect))
           <= edge_dist(rect) + e.a
    /\ Haversine(e.p2_lon, e.p2_lat, CentreLon(rect), CentreLat(rect))
           <= edge_dist(rect) + e.a

(***************************************************************************)
(* QuadTree: distance queries                                              *)
(***************************************************************************)
RECURSIVE FilterEllipse(_, _)
FilterEllipse(points, e) ==
    IF points = << >> THEN << >>
    ELSE (IF EllipseContains(e, Head(points)) THEN << Head(points) >> ELSE << >>)
         \o FilterEllipse(Tail(points), e)

RECURSIVE QQueryEllipse(_, _, _)
RECURSIVE QQueryEllipseChildren(_, _, _, _)

QQueryEllipseChildren(children, i, e, points) ==
    IF i > Len(children) THEN points
    ELSE QQueryEllipseChildren(children, i + 1, e,
                               QQueryEllipse(children[i], e, points))

\* QuadTree.query_ellipse
QQueryEllipse(self, e, points) ==
    IF ~nearby_rect(e, self.boundary) THEN points
    ELSE LET found == points \o FilterEllipse(self.points, e)
         IN IF self.divided
            THEN QQueryEllipseChildren(self.children, 1, e, found)
            ELSE found

RECURSIVE FilterNear(_, _, _)
FilterNear(points, point, dist) ==
    IF points = << >> THEN << >>
    ELSE (IF Haversine(point.lon, point.lat, Head(points).lon, Head(points).lat)
                <= dist
          THEN << Head(points) >> ELSE << >>)
         \o FilterNear(Tail(points), point, dist)

RECURSIVE QNearbyPoints(_, _, _, _)
RECURSIVE QNearbyPointsChildren(_, _, _, _, _)

QNearbyPointsChildren(children, i, point, dist, points) ==
    IF i > Len(children) THEN points
    ELSE QNearbyPointsChildren(children, i + 1, point, dist,
                               QNearbyPoints(children[i], point, dist, points))

\* QuadTree.nearby_points
QNearbyPoints(self, point, dist, points) ==
    IF ~Nearby(self.boundary, point, dist) THEN points
    ELSE LET found == points \o FilterNear(self.points, point, dist)
         IN IF self.divided
            THEN QNearbyPointsChildren(self.children, 1, point, dist, found)
            ELSE found

(***************************************************************************)
(* The QuadTree as a state machine: insert, remove, query                  *)
(***************************************************************************)
\* the value of a variable no operation of the specification uses
Unused == << >>

\* boundaries: the rectangle of the tests, the whole sphere, two rectangles
\* across the antimeridian (centre longitude 180 and 170)
QBoundaries ==
    { Rectangle(Deg(0), Deg(20), Deg(0), Deg(8)),
      Rectangle(Deg(170), Deg(-170), Deg(-30), Deg(-10)) }

\* the trees at construction: each boundary with capacity 1 and no max_depth,
\* the boundary of the tests also with capacity 2 and max_depth 1
QTrees ==
    { QuadTree(b, 1, 0, NoMaxDepth) : b \in QBoundaries }
    \cup { QuadTree(Rectangle(Deg(0), Deg(20), Deg(0), Deg(8)), 2, 0, <<1>>) }

QRecords ==
    { Record(Deg(10), Deg(5), None),
      Record(Deg(13), Deg(2), None),
      Record(Deg(175), Deg(-20), None),
      Record(Deg(-175), Deg(-14), None),
      Record(Deg(0), Deg(-20), None) }

\* query rectangles: inside the test boundary, across the antimeridian,
\* the whole sphere
QRects ==
    { Rectangle(Deg(11), Deg(14), Deg(1), Deg(3)),
      Rectangle(Deg(140), Deg(-160), Deg(-25), Deg(50)),
      Rectangle(Deg(-180), Deg(180), Deg(-90), Deg(90)) }

\* the OctTrees at construction: the boundaries above over 16 days
OTrees ==
    { OctTree(SpaceTimeRectangle(b.west, b.east, b.south, b.north,
                                 Deg(0), Deg(16)), 1, 0, NoMaxDepth) :
        b \in QBoundaries }

\* stored early, stored late, across the antimeridian, outside every
\* boundary in time only
ORecords ==
    { SpaceTimeRecord(Deg(10), Deg(5), Deg(3), None),
      SpaceTimeRecord(Deg(13), Deg(2), Deg(11), None),
      SpaceTimeRecord(Deg(-175), Deg(-14), Deg(8), None),
      SpaceTimeRecord(Deg(10), Deg(5), Deg(20), None) }

\* query boxes: one octant of the test boundary, across the antimeridian,
\* every place over the first days (given end first)
ORects ==
    { SpaceTimeRectangle(Deg(11), Deg(14), Deg(1), Deg(3), Deg(9), Deg(15)),
      SpaceTimeRectangle(Deg(140), Deg(-160), Deg(-25), Deg(50), Deg(0), Deg(30)),
      SpaceTimeRectangle(Deg(-180), Deg(180), Deg(-90), Deg(90), Deg(4), Deg(0)) }

\* the tree under test is a QuadTree or an OctTree
InitQT ==
    /\ \/ qtree \in QTrees /\ otree = Unused
       \/ qtree = Unused /\ otree \in OTrees
    /\ kdtree = Unused
    /\ fn_vals = Unused
    /\ shape = Unused
    /\ last = [op |-> "init"]

QTInsert(point) ==
    /\ qtree # Unused
    /\ Len(AllPoints(qtree)) < MaxPoints
    /\ LET r == QInsert(qtree, point)
       IN /\ qtree' = r.tree
          /\ last' = [op |-> "insert", point |-> point, ret |-> r.ret]
    /\ UNCHANGED <<otree, kdtree, fn_vals, shape>>

QTRemove(point) ==
    /\ qtree # Unused
    /\ LET r == QRemove(qtree, point)
       IN /\ qtree' = r.tree
          /\ last' = [op |-> "remove", point |-> point, ret |-> r.ret]
    /\ UNCHANGED <<otree, kdtree, fn_vals, shape>>

QTQuery(rect) ==
    /\ qtree # Unused
    /\ last' = [op |-> "query", rect |-> rect, ret |-> QQuery(qtree, rect, << >>)]
    /\ UNCHANGED <<qtree, otree, kdtree, fn_vals, shape>>

OTInsert(point) ==
    /\ otree # Unused
    /\ Len(AllPoints(otree)) < MaxPoints
    /\ LET r == OInsert(otree, point)
       IN /\ otree' = r.tree
          /\ last' = [op |-> "insert", point |-> point, ret |-> r.ret]
    /\ UNCHANGED <<qtree, kdtree, fn_vals, shape>>

OTRemove(point) ==
    /\ otree # Unused
    /\ LET r == ORemove(otree, point)
       IN /\ otree' = r.tree
          /\ last' = [op |-> "remove", point |-> point, ret |-> r.ret]
    /\ UNCHANGED <<qtree, kdtree, fn_vals, shape>>

OTQuery(rect) ==
    /\ otree # Unused
    /\ last' = [op |-> "query", rect |-> rect, ret |-> OQuery(otree, rect, << >>)]
    /\ UNCHANGED <<qtree, otree, kdtree, fn_vals, shape>>

NextQT ==
    \/ \E point \in QRecords : QTInsert(point)
    \/ \E point \in QRecords : QTRemove(point)
    \/ \E rect \in QRects : QTQuery(rect)
    \/ \E point \in ORecords : OTInsert(point)
    \/ \E point \in ORecords : OTRemove(point)
    \/ \E rect \in ORects : OTQuery(rect)

SpecQT == InitQT /\ [][NextQT]_vars

\* C1: after any sequence of insert and remove calls, query(q) on a QuadTree
\* or an OctTree returns exactly the stored records that q contains, each
\* stored record once
C1_QueryExact ==
    last.op = "query" =>
        IF qtree # Unused
        THEN SameRecords(last.ret,
                         FilterContains(AllPoints(qtree), last.rect))
        ELSE SameRecords(last.ret,
                         STFilterContains(AllPoints(otree), last.rect))

\* a QuadTree query that skipped a child and still returned the record of
\* another child
C1_WitnessQuad ==
    /\ last.op = "query"
    /\ qtree # Unused
    /\ qtree.divided
    /\ \E i \in 1..4 : ~Intersects(qtree.children[i].boundary, last.rect)
    /\ \E i \in 1..4, j \in 1..Len(last.ret) :
          /\ Len(qtree.children[i].points) > 0
          /\ last.ret[j] = qtree.children[i].points[1]

\* an OctTree query that skipped a child and still returned the record of
\* another child
C1_Witness ==
    /\ last.op = "query"
    /\ otree # Unused
    /\ otree.divided
    /\ \E i \in 1..8 : ~STIntersects(otree.children[i].boundary, last.rect)
    /\ \E i \in 1..8, j \in 1..Len(last.ret) :
          /\ Len(otree.children[i].points) > 0
          /\ last.ret[j] = otree.children[i].points[1]

\* C3: insert called on the root of a QuadTree or an OctTree returns True if
\* and only if the root boundary contains the record
C3_InsertIffContains ==
    last.op = "insert" =>
        (last.ret <=> IF qtree # Unused
                      THEN Contains(qtree.boundary, last.point)
                      ELSE STContains(otree.boundary, last.point))

(***************************************************************************)
(* KDTree                                                                  *)
(***************************************************************************)
\* the default of max_depth
DefaultMaxDepth == 20

\* numpy.inf as a best distance: larger than every haversine
Inf == Deg(360)

\* getattr(p, variable)
GetAttr(p, variable) == IF variable = "lon" THEN p.lon ELSE p.lat

\* list.sort(key = getattr(p, variable)): stable, by insertion
RECURSIVE SortInsert(_, _, _)
SortInsert(sorted, p, variable) ==
    IF sorted = << >> THEN << p >>
    ELSE IF GetAttr(p, variable) < GetAttr(Head(sorted), variable)
    THEN << p >> \o sorted
    ELSE << Head(sorted) >> \o SortInsert(Tail(sorted), p, variable)

RECURSIVE SortBy(_, _)
SortBy(points, variable) ==
    IF points = << >> THEN << >>
    ELSE SortInsert(SortBy(SubSeq(points, 1, Len(points) - 1), variable),
                    points[Len(points)], variable)

\* the while loop of KDTree.__init__: split_index (0-based, as in the code)
\* moves right past the values equal to partition_value
RECURSIVE SplitIndex(_, _, _, _)
SplitIndex(points, split_index, variable, partition_value) ==
    IF /\ split_index < Len(points)
       /\ GetAttr(points[split_index + 1], variable) = partition_value
    THEN SplitIndex(points, split_index + 1, variable, partition_value)
    ELSE split_index

\* KDTree.__init__
RECURSIVE KDTree(_, _, _)
KDTree(points, depth, max_depth) ==
    IF depth = max_depth \/ Len(points) < 2
    THEN [split |-> FALSE, depth |-> depth, points |-> points]
    ELSE LET axis     == depth % 2
             variable == IF axis = 0 THEN "lon" ELSE "lat"
             sorted   == SortBy(points, variable)
             n_points == Len(points)
             partition_value == GetAttr(sorted[n_points \div 2], variable)
             split_index ==
                 SplitIndex(sorted, n_points \div 2, variable, partition_value)
         IN [split |-> TRUE, depth |-> depth, axis |-> axis,
             variable |-> variable, partition_value |-> partition_value,
             child_left |->
                 KDTree(SubSeq(sorted, 1, split_index), depth + 1,
                        DefaultMaxDepth),
             child_right |->
                 KDTree(SubSeq(sorted, split_index + 1, n_points), depth + 1,
                        DefaultMaxDepth)]

\* KDTree.insert
RECURSIVE KInsert(_, _)
KInsert(self, point) ==
    IF ~self.split
    THEN IF InList(point, self.points)
         THEN [ret |-> FALSE, tree |-> self]
         ELSE [ret |-> TRUE, tree |-> [self EXCEPT !.points = Append(@, point)]]
    ELSE IF GetAttr(point, self.variable) < self.partition_value
    THEN LET r == KInsert(self.child_left, point)
         IN [ret |-> r.ret, tree |-> [self EXCEPT !.child_left = r.tree]]
    ELSE LET r == KInsert(self.child_right, point)
         IN [ret |-> r.ret, tree |-> [self EXCEPT !.child_right = r.tree]]

\* KDTree.delete
RECURSIVE KDelete(_, _)
KDelete(self, point) ==
    IF ~self.split
    THEN IF InList(point, self.points)
         THEN [ret |-> TRUE,
               tree |-> [self EXCEPT !.points = ListRemove(@, point)]]
         ELSE [ret |-> FALSE, tree |-> self]
    ELSE IF GetAttr(point, self.variable) < self.partition_value
    THEN LET r == KDelete(self.child_left, point)
         IN [ret |-> r.ret, tree |-> [self EXCEPT !.child_left = r.tree]]
    ELSE LET r == KDelete(self.child_right, point)
         IN [ret |-> r.ret, tree |-> [self EXCEPT !.child_right = r.tree]]

\* KDTree._get_partition_record
_get_partition_record(self, point) ==
    IF self.variable = "lon"
    THEN Record(self.partition_value, point.lat, None)
    ELSE Record(point.lon, self.partition_value, None)

\* the loop over the points of a leaf in KDTree._query; best is
\* [rec |-> << >> (None) or << record >>, dist |-> best_distance]
RECURSIVE LeafScan(_, _, _)
LeafScan(points, point, best) ==
    IF points = << >> THEN best
    ELSE LET dist == Distance(point, Head(points))
         IN LeafScan(Tail(points), point,
                     IF dist < best.dist
                     THEN [rec |-> << Head(points) >>, dist |-> dist]
                     ELSE best)

\* KDTree._query
RECURSIVE _query(_, _, _)
_query(self, point, best) ==
    IF ~self.split THEN LeafScan(self.points, point, best)
    ELSE IF GetAttr(point, self.variable) < self.partition_value
    THEN LET b1 == _query(self.child_left, point, best)
         IN IF Distance(point, _get_partition_record(self, point)) < b1.dist
            THEN _query(self.child_right, point, b1)
            ELSE b1
    ELSE LET b1 == _query(self.child_right, point, best)
         IN IF Distance(point, _get_partition_record(self, point)) < b1.dist
            THEN _query(self.child_left, point, b1)
            ELSE b1

\* the shadow point of KDTree.query
ShadowPoint(point) ==
    IF point.lon < 0
    THEN Record(point.lon + Deg(360), point.lat, None)
    ELSE Record(point.lon - Deg(360), point.lat, None)

\* KDTree.query, on a tree that holds a record
KQuery(self, point) ==
    LET b1 == _query(self, point, [rec |-> << >>, dist |-> Inf])
        b2 == _query(self, ShadowPoint(point), [rec |-> << >>, dist |-> Inf])
        r  == IF b1.dist <= b2.dist THEN b1.rec[1] ELSE b2.rec[1]
    IN [rec |-> r, dist |-> Distance(point, r)]

\* every record stored in the leaves, left to right
RECURSIVE KPoints(_)
KPoints(self) ==
    IF ~self.split THEN self.points
    ELSE KPoints(self.child_left) \o KPoints(self.child_right)

(***************************************************************************)
(* The KDTree as a state machine: construction, insert, delete, query      *)
(***************************************************************************)
KRecords ==
    { Record(Deg(-10), Deg(0), None),
      Record(Deg(179), Deg(0), None),
      Record(Deg(1), Deg(2), None),
      Record(Deg(-4), Deg(71), None) }

\* query points: both sides of the antimeridian, and the query of the tests
KQueries ==
    { Record(Deg(-179), Deg(0), None),
      Record(Deg(175), Deg(44), None),
      Record(Deg(-6), Deg(35), None) }

\* the lists of at most n records
RECURSIVE ListsUpTo(_, _)
ListsUpTo(S, n) ==
    IF n = 0 THEN { << >> }
    ELSE LET shorter == ListsUpTo(S, n - 1)
         IN shorter \cup { Append(l, x) : l \in shorter, x \in S }

InitKD ==
    /\ kdtree \in { KDTree(P, 0, DefaultMaxDepth) : P \in ListsUpTo(KRecords, MaxKDBuild) }
    /\ qtree = Unused
    /\ otree = Unused
    /\ fn_vals = Unused
    /\ shape = Unused
    /\ last = [op |-> "init"]

\* last.stored: whether a record equal to point was stored before the call;
\* last.before: the records stored before the call
KDInsert(point) ==
    /\ Len(KPoints(kdtree)) < MaxKDPoints
    /\ LET r == KInsert(kdtree, point)
       IN /\ kdtree' = r.tree
          /\ last' = [op |-> "insert", point |-> point, ret |-> r.ret,
                      stored |-> InList(point, KPoints(kdtree)),
                      before |-> KPoints(kdtree)]
    /\ UNCHANGED <<qtree, otree, fn_vals, shape>>

KDDelete(point) ==
    /\ LET r == KDelete(kdtree, point)
       IN /\ kdtree' = r.tree
          /\ last' = [op |-> "delete", point |-> point, ret |-> r.ret,
                      stored |-> InList(point, KPoints(kdtree)),
                      before |-> KPoints(kdtree)]
    /\ UNCHANGED <<qtree, otree, fn_vals, shape>>

KDQuery(point) ==
    /\ KPoints(kdtree) # << >>
    /\ last' = [op |-> "query", point |-> point, ret |-> KQuery(kdtree, point)]
    /\ UNCHANGED <<qtree, otree, kdtree, fn_vals, shape>>

NextKD ==
    \/ \E point \in KRecords : KDInsert(point)
    \/ \E point \in KRecords : KDDelete(point)

\* construction, insert and delete
SpecKD == InitKD /\ [][NextKD]_vars

NextKQ == \E point \in KQueries : KDQuery(point)

\* construction and query
SpecKQ == InitKD /\ [][NextKQ]_vars

\* the smallest haversine from point to a record of the list
MinDistance(point, points) ==
    CHOOSE d \in { Distance(point, points[i]) : i \in 1..Len(points) } :
        \A j \in 1..Len(points) : d <= Distance(point, points[j])

\* C4: query(p) returns a stored record and the least haversine from p to
\* the stored records
C4_QueryNearest ==
    last.op = "query" =>
        /\ InList(last.ret.rec, KPoints(kdtree))
        /\ last.ret.dist = MinDistance(last.point, KPoints(kdtree))

\* C5: delete(r) of a stored record returns True and leaves no record equal
\* to r in any leaf
C5_DeleteStored ==
    (last.op = "delete" /\ last.stored) =>
        (last.ret /\ ~InList(last.point, KPoints(kdtree)))

\* C6: insert(r) returns False and adds nothing when a record equal to r is
\* stored, and otherwise returns True and adds r to one leaf
C6_InsertNoDuplicate ==
    last.op = "insert" =>
        IF last.stored
        THEN ~last.ret /\ SameRecords(KPoints(kdtree), last.before)
        ELSE last.ret /\ SameRecords(KPoints(kdtree), Append(last.before, last.point))

(***************************************************************************)
(* find_nearest                                                            *)
(***************************************************************************)
\* bisect.bisect(vals, test) = bisect_right: the binary search between
\* lo and hi (0-based positions)
RECURSIVE BisectFrom(_, _, _, _)
BisectFrom(vals, test, lo, hi) ==
    IF lo < hi
    THEN LET mid == (lo + hi) \div 2
         IN IF test < vals[mid + 1]
            THEN BisectFrom(vals, test, lo, mid)
            ELSE BisectFrom(vals, test, mid + 1, hi)
    ELSE lo

bisect(vals, test) == BisectFrom(vals, test, 0, Len(vals))

\* a faulty argmin: of two equal numbers it takes the last
argmin2Last(x, y) == IF x < y THEN 0 ELSE 1

\* numpy.argmin of a list of two numbers (0-based): the first smallest
argmin2(x, y) == IF x <= y THEN 0 ELSE 1

\* a faulty _find_nearest: between two values it takes the lower neighbour
\* without comparing the two differences
_find_nearestLower(vals, test) ==
    LET i == bisect(vals, test)
    IN IF i = 0 /\ test <= vals[1] THEN 0
       ELSE IF i = Len(vals) /\ test >= vals[Len(vals)] THEN Len(vals) - 1
       ELSE i - 1

\* _find_nearest: a 0-based index of vals
_find_nearest(vals, test) ==
    LET i == bisect(vals, test)
    IN IF i = 0 /\ test <= vals[1] THEN 0
       ELSE IF i = Len(vals) /\ test >= vals[Len(vals)] THEN Len(vals) - 1
       ELSE IF argmin2(Abs(test - vals[i]), Abs(test - vals[i + 1])) = 0
            THEN i - 1 ELSE i

\* find_nearest
find_nearest(vals, test) ==
    [k \in 1..Len(test) |-> _find_nearest(vals, test[k])]

\* the non-decreasing lists among a set of lists
Sorted(l) == \A i \in 1..(Len(l) - 1) : l[i] <= l[i + 1]

FNVals == { l \in ListsUpTo(0..MaxVal, MaxLen) : l # << >> /\ Sorted(l) }

\* queries before the first value, between and on the values, after the last
FNTests == ListsUpTo((0 - 1)..(MaxVal + 1), 2)

InitFN ==
    /\ fn_vals \in FNVals
    /\ qtree = Unused
    /\ otree = Unused
    /\ kdtree = Unused
    /\ shape = Unused
    /\ last = [op |-> "init"]

FindNearest(test) ==
    /\ last' = [op |-> "find_nearest", test |-> test,
                ret |-> find_nearest(fn_vals, test)]
    /\ UNCHANGED <<qtree, otree, kdtree, fn_vals, shape>>

NextFN == \E test \in FNTests : FindNearest(test)

SpecFN == InitFN /\ [][NextFN]_vars

\* C7: the index returned for a query is an index of vals, and no value of
\* vals is nearer to the query than the value at that index
C7_NearestIndex ==
    last.op = "find_nearest" =>
        \A k \in 1..Len(last.test) :
            /\ last.ret[k] \in 0..(Len(fn_vals) - 1)
            /\ \A j \in 1..Len(fn_vals) :
                  Abs(fn_vals[last.ret[k] + 1] - last.test[k])
                      <= Abs(fn_vals[j] - last.test[k])

\* a query strictly between two values, nearer to the larger
C7_Witness ==
    /\ last.op = "find_nearest"
    /\ \E k \in 1..Len(last.test) :
          /\ last.ret[k] > 0
          /\ fn_vals[last.ret[k]] < last.test[k]
          /\ last.test[k] < fn_vals[last.ret[k] + 1]

\* the greedy reference: the first index (0-based) that minimises |x - y|
Greedy(vals, y) ==
    CHOOSE i \in 0..(Len(vals) - 1) :
        /\ \A j \in 1..Len(vals) : Abs(vals[i + 1] - y) <= Abs(vals[j] - y)
        /\ \A j \in 1..i : Abs(vals[j] - y) > Abs(vals[i + 1] - y)

\* C8: find_nearest equals the greedy reference on every sorted list
C8_EqualsGreedy ==
    last.op = "find_nearest" =>
        \A k \in 1..Len(last.test) :
            last.ret[k] = Greedy(fn_vals, last.test[k])

StrictlyIncreasing(l) == \A i \in 1..(Len(l) - 1) : l[i] < l[i + 1]

\* C8 (amended): find_nearest equals the greedy reference on every strictly
\* increasing list
C8_EqualsGreedyStrict ==
    (last.op = "find_nearest" /\ StrictlyIncreasing(fn_vals)) =>
        \A k \in 1..Len(last.test) :
            last.ret[k] = Greedy(fn_vals, last.test[k])

\* a query half way between two values of a strictly increasing list
C8_Witness ==
    /\ last.op = "find_nearest"
    /\ StrictlyIncreasing(fn_vals)
    /\ \E k \in 1..Len(last.test) :
          /\ last.ret[k] + 2 <= Len(fn_vals)
          /\ last.test[k] - fn_vals[last.ret[k] + 1]
                 = fn_vals[last.ret[k] + 2] - last.test[k]
          /\ last.test[k] > fn_vals[last.ret[k] + 1]

(***************************************************************************)
(* Rectangle as a state machine: construction, contains                    *)
(***************************************************************************)
ShapeLons == { Deg(-180), Deg(-170), Deg(-100), Deg(0), Deg(80), Deg(170), Deg(180) }

ShapeRects ==
    { Rectangle(w, e, Deg(-10), Deg(10)) : w \in ShapeLons, e \in ShapeLons }
    \cup { Rectangle(Deg(80), Deg(-100), Deg(35), Deg(55)) }

ShapePoints ==
    { Record(lon, lat, None) :
        lon \in { Deg(-175), Deg(-140), Deg(0), Deg(100), Deg(175) },
        lat \in { Deg(0), Deg(40) } }

InitShape ==
    /\ shape \in ShapeRects
    /\ qtree = Unused
    /\ otree = Unused
    /\ kdtree = Unused
    /\ fn_vals = Unused
    /\ last = [op |-> "init"]

RectContains(point) ==
    /\ last' = [op |-> "contains", point |-> point, ret |-> Contains(shape, point)]
    /\ UNCHANGED <<qtree, otree, kdtree, fn_vals, shape>>

NextShape == \E point \in ShapePoints : RectContains(point)

SpecShape == InitShape /\ [][NextShape]_vars

\* C2: a rectangle across the antimeridian (east < west, lon_range < 360)
\* contains a record in its latitude range iff the record's longitude is
\* >= west or <= east
C2_WrapContains ==
    (/\ last.op = "contains"
     /\ shape.east < shape.west
     /\ lon_range(shape) < Deg(360)
     /\ shape.south <= last.point.lat
     /\ last.point.lat <= shape.north) =>
        (last.ret <=> (last.point.lon >= shape.west \/ last.point.lon <= shape.east))

(***************************************************************************)
(* The QuadTree as a state machine: insert, nearby_points, query_ellipse   *)
(***************************************************************************)
\* the boundary of the tests, and a boundary around the sphere whose centre
\* (0, 10) is off the equator
QDTrees ==
    { QuadTree(Rectangle(Deg(0), Deg(20), Deg(0), Deg(8)), 1, 0, NoMaxDepth),
      QuadTree(Rectangle(Deg(-180), Deg(180), Deg(-70), Deg(90)), 1, 0, NoMaxDepth) }

QDRecords ==
    { Record(Deg(10), Deg(5), None),
      Record(Deg(15), Deg(0), None),
      Record(Deg(13), Deg(2), None),
      Record(Deg(180), Deg(-10), None) }

\* nearby_points(point, dist)
QDNear ==
    { <<Record(Deg(180), Deg(-10), None), Deg(1)>>,
      <<Record(Deg(15), Deg(0), None), Deg(2)>>,
      <<Record(Deg(10), Deg(5), None), Deg(10)>> }

\* ellipses along the equator (theta = 0) and along a meridian (theta = 90
\* degrees)
QDEllipses ==
    { Ellipse(Deg(3), Deg(0), Deg(13), Deg(5), 0),
      Ellipse(Deg(12), Deg(0), Deg(5), Deg(4), 0),
      Ellipse(Deg(10), Deg(4), Deg(5), Deg(3), 90) }

InitQD ==
    /\ qtree \in QDTrees
    /\ otree = Unused
    /\ kdtree = Unused
    /\ fn_vals = Unused
    /\ shape = Unused
    /\ last = [op |-> "init"]

QTNearbyPoints(point, dist) ==
    /\ last' = [op |-> "nearby_points", point |-> point, dist |-> dist,
                ret |-> QNearbyPoints(qtree, point, dist, << >>)]
    /\ UNCHANGED <<qtree, otree, kdtree, fn_vals, shape>>

QTQueryEllipse(e) ==
    /\ last' = [op |-> "query_ellipse", ellipse |-> e,
                ret |-> QQueryEllipse(qtree, e, << >>)]
    /\ UNCHANGED <<qtree, otree, kdtree, fn_vals, shape>>

NextQD ==
    \/ \E point \in QDRecords : QTInsert(point)
    \/ \E q \in QDNear : QTNearbyPoints(q[1], q[2])
    \/ \E e \in QDEllipses : QTQueryEllipse(e)

SpecQD == InitQD /\ [][NextQD]_vars

\* C9 (QuadTree): nearby_points(point, dist) returns exactly the stored
\* records whose haversine distance to point is <= dist
C9_NearbyExact ==
    last.op = "nearby_points" =>
        SameRecords(last.ret, FilterNear(AllPoints(qtree), last.point, last.dist))

\* C10: query_ellipse(e) returns exactly the stored records that e contains
C10_EllipseExact ==
    last.op = "query_ellipse" =>
        SameRecords(last.ret, FilterEllipse(AllPoints(qtree), last.ellipse))

(***************************************************************************)
(* divide() as a state machine: construction, divide, contains             *)
(***************************************************************************)
\* boundaries: the boundary of the tests, across the antimeridian with the
\* centre on it and with the centre east of it, the whole sphere
DVBoundaries ==
    { Rectangle(Deg(0), Deg(20), Deg(0), Deg(8)),
      Rectangle(Deg(170), Deg(-170), Deg(-10), Deg(10)),
      Rectangle(Deg(80), Deg(-100), Deg(-20), Deg(60)),
      Rectangle(Deg(150), Deg(-170), Deg(-10), Deg(10)),
      Rectangle(Deg(-180), Deg(180), Deg(-90), Deg(90)) }

DVQuadTrees == { QuadTree(b, 1, 0, NoMaxDepth) : b \in DVBoundaries }

DVOctTrees ==
    { OctTree(SpaceTimeRectangle(b.west, b.east, b.south, b.north,
                                 Deg(0), Deg(16)), 1, 0, NoMaxDepth) :
        b \in DVBoundaries }

DVLons == { Deg(-175), Deg(-140), Deg(0), Deg(10), Deg(15), Deg(160), Deg(175) }

DVLats == { Deg(0), Deg(4), Deg(6), Deg(40) }

DVPoints == { Record(lon, lat, None) : lon \in DVLons, lat \in DVLats }

DVSpaceTimePoints ==
    { SpaceTimeRecord(lon, lat, t, None) :
        lon \in DVLons, lat \in { Deg(0), Deg(4) }, t \in { Deg(3), Deg(8), Deg(20) } }

InitDV ==
    /\ \/ qtree \in DVQuadTrees /\ otree = Unused
       \/ qtree = Unused /\ otree \in DVOctTrees
    /\ kdtree = Unused
    /\ fn_vals = Unused
    /\ shape = Unused
    /\ last = [op |-> "init"]

\* QuadTree.divide called on the root
QTDivide ==
    /\ qtree # Unused
    /\ qtree' = QDivide(qtree)
    /\ last' = [op |-> "divide"]
    /\ UNCHANGED <<otree, kdtree, fn_vals, shape>>

\* OctTree.divide called on the root
OTDivide ==
    /\ otree # Unused
    /\ otree' = ODivide(otree)
    /\ last' = [op |-> "divide"]
    /\ UNCHANGED <<qtree, kdtree, fn_vals, shape>>

\* boundary.contains(point) of the root and of each of its children
QTContains(point) ==
    /\ qtree # Unused
    /\ qtree.divided
    /\ last' = [op |-> "contains", point |-> point,
                ret |-> Contains(qtree.boundary, point),
                children |-> [i \in 1..4 |->
                                 Contains(qtree.children[i].boundary, point)]]
    /\ UNCHANGED <<qtree, otree, kdtree, fn_vals, shape>>

OTContains(point) ==
    /\ otree # Unused
    /\ otree.divided
    /\ last' = [op |-> "contains", point |-> point,
                ret |-> STContains(otree.boundary, point),
                children |-> [i \in 1..8 |->
                                 STContains(otree.children[i].boundary, point)]]
    /\ UNCHANGED <<qtree, otree, kdtree, fn_vals, shape>>

NextDV ==
    \/ QTDivide
    \/ OTDivide
    \/ \E point \in DVPoints : QTContains(point)
    \/ \E point \in DVSpaceTimePoints : OTContains(point)

SpecDV == InitDV /\ [][NextDV]_vars

\* the point lies on an edge that children of the divided root share
OnSharedEdge(self, point) ==
    \/ point.lon = CentreLon(self.boundary)
    \/ point.lat = CentreLat(self.boundary)
    \/ (otree # Unused /\ point.datetime = centre_datetime(self.boundary))

\* C11: after divide(), the parent boundary contains a point if and only if
\* at least one child boundary contains it, and more than one child contains
\* it only if it lies on an edge the children share
C11_DivideCover ==
    last.op = "contains" =>
        LET holders == { i \in DOMAIN last.children : last.children[i] }
        IN /\ last.ret <=> holders # {}
           /\ Cardinality(holders) > 1 =>
                  OnSharedEdge(IF qtree # Unused THEN qtree ELSE otree,
                               last.point)

(***************************************************************************)
(* QuadTree / OctTree: what insert and remove do to the stored records     *)
(* (claims checked under SpecQT)                                           *)
(***************************************************************************)
\* the tree under test
Tree == IF qtree # Unused THEN qtree ELSE otree

\* every record stored in the tree under test, node by node
StoredPoints == AllPoints(Tree)

\* no two elements of the list are equal records
PairwiseDistinct(points) ==
    \A i, j \in 1..Len(points) : i # j => ~RecordEq(points[i], points[j])

\* C12: on a tree whose stored records are pairwise distinct, a successful
\* insert of a record not yet stored adds exactly one record, and after every
\* insert or remove each stored record is in the points list of exactly one
\* node, exactly once
C12_SingleStorage ==
    [][ PairwiseDistinct(StoredPoints) =>
          /\ (last'.op = "insert" /\ last'.ret
                  /\ ~InList(last'.point, StoredPoints)) =>
                 /\ Len(StoredPoints') = Len(StoredPoints) + 1
                 /\ PairwiseDistinct(StoredPoints')
          /\ last'.op = "remove" => PairwiseDistinct(StoredPoints') ]_vars

\* a third distinct record was stored in a child of the divided root
C12_Witness ==
    /\ last.op = "insert"
    /\ last.ret
    /\ Tree.divided
    /\ PairwiseDistinct(StoredPoints)
    /\ Len(StoredPoints) >= 2
    /\ ~InList(last.point, Tree.points)

\* list s is the beginning of list t
IsPrefix(s, t) == Len(s) <= Len(t) /\ SubSeq(t, 1, Len(s)) = s

\* every record of node old is at the same place of the same node in new:
\* the points list of each old node begins the list of the same node of new
RECURSIVE PointsKept(_, _)
PointsKept(old, new) ==
    /\ IsPrefix(old.points, new.points)
    /\ old.divided =>
          /\ new.divided
          /\ \A i \in 1..Len(old.children) :
                PointsKept(old.children[i], new.children[i])

\* C13: insert(r) leaves every record stored before the call in the node
\* that held it, at the same position of its points list, also when the call
\* divides a node
C13_InsertMovesNothing ==
    [][ last'.op = "insert" => PointsKept(Tree, Tree') ]_vars

\* an insert that went two levels down, below nodes that keep their records
C13_Witness ==
    /\ last.op = "insert"
    /\ last.ret
    /\ Len(Tree.points) > 0
    /\ Tree.divided
    /\ \E i \in 1..Len(Tree.children) :
          /\ Len(Tree.children[i].points) > 0
          /\ Tree.children[i].divided
          /\ \E j \in 1..Len(Tree.children[i].children) :
                InList(last.point, Tree.children[i].children[j].points)

(***************************************************************************)
(* remove() as a state machine: insert and remove of records with a uid    *)
(***************************************************************************)
RMQuadTrees ==
    { QuadTree(Rectangle(Deg(0), Deg(20), Deg(0), Deg(8)), 1, 0, NoMaxDepth) }

RMOctTrees ==
    { OctTree(SpaceTimeRectangle(Deg(0), Deg(20), Deg(0), Deg(8),
                                 Deg(0), Deg(16)), 1, 0, NoMaxDepth) }

\* records without a uid, and records that share the uid "b" at two places
RMRecords ==
    { Record(Deg(10), Deg(5), None),
      Record(Deg(13), Deg(2), "b"),
      Record(Deg(3), Deg(6), "b"),
      Record(Deg(13), Deg(2), None) }

RMSpaceTimeRecords ==
    { SpaceTimeRecord(Deg(10), Deg(5), Deg(3), None),
      SpaceTimeRecord(Deg(13), Deg(2), Deg(11), "b"),
      SpaceTimeRecord(Deg(13), Deg(2), Deg(3), "b"),
      SpaceTimeRecord(Deg(13), Deg(2), Deg(11), None) }

InitRM ==
    /\ \/ qtree \in RMQuadTrees /\ otree = Unused
       \/ qtree = Unused /\ otree \in RMOctTrees
    /\ kdtree = Unused
    /\ fn_vals = Unused
    /\ shape = Unused
    /\ last = [op |-> "init"]

NextRM ==
    \/ \E point \in RMRecords : QTInsert(point)
    \/ \E point \in RMRecords : QTRemove(point)
    \/ \E point \in RMSpaceTimeRecords : OTInsert(point)
    \/ \E point \in RMSpaceTimeRecords : OTRemove(point)

SpecRM == InitRM /\ [][NextRM]_vars

\* list after is list before without one element equal to point
RemovedOne(before, after, point) ==
    \E i \in 1..Len(before) :
        /\ RecordEq(before[i], point)
        /\ after = SubSeq(before, 1, i - 1) \o SubSeq(before, i + 1, Len(before))

\* C14: remove(r) returns True and deletes exactly one stored record equal to
\* r, leaving the others in place, whenever a record equal to r is stored;
\* otherwise it returns False and changes nothing
C14_RemoveEqual ==
    [][ last'.op = "remove" =>
          IF InList(last'.point, StoredPoints)
          THEN last'.ret /\ RemovedOne(StoredPoints, StoredPoints', last'.point)
          ELSE ~last'.ret /\ Tree' = Tree ]_vars

(***************************************************************************)
(* Constructors as a state machine: Record, SpaceTimeRecord, Rectangle,    *)
(* SpaceTimeRectangle, SpaceTimeEllipse                                    *)
(***************************************************************************)
\* SpaceTimeRecord.__init__ raises LatitudeError
SpaceTimeRecordRaises(lat) == lat < Deg(-90) \/ lat > Deg(90)

\* SpaceTimeRectangle.__post_init__ raises LatitudeError
SpaceTimeRectangleRaises(south, north) == north > Deg(90) \/ south < Deg(-90)

\* the category of the warning SpaceTimeRectangle.__post_init__ issues:
\* warn(message, DateWarning)
SpaceTimeRectangleWarns(start, end) ==
    IF end < start THEN "DateWarning" ELSE None

\* the category of the warning SpaceTimeEllipse.__init__ issues: warn(message)
\* without a category, which is UserWarning
SpaceTimeEllipseWarns(start, end) ==
    IF end < start THEN "UserWarning" ELSE None

\* SpaceTimeEllipse.__init__; theta is given in whole degrees
SpaceTimeEllipse(lon, lat, a, b, theta, start, end) ==
    LET lon0    == IF lon > Deg(180) THEN FixLon(lon) ELSE lon
        bearing == (90 - theta) % 360
        c       == Sqrt(a * a - b * b)
        p1      == Destination(lon0, lat, bearing, c)
        p2      == Destination(lon0, lat, (bearing - 180) % 360, c)
    IN [a |-> a, b |-> b, lon |-> lon0, lat |-> lat, theta |-> theta,
        start |-> IF end < start THEN end ELSE start,
        end   |-> IF end < start THEN start ELSE end,
        bearing |-> bearing, c |-> c,
        p1_lon |-> p1.lon, p1_lat |-> p1.lat,
        p2_lon |-> p2.lon, p2_lat |-> p2.lat]

\* latitudes below, on and above the two limits; longitudes; datetimes
CTLats == { Deg(-100), Deg(-90), Deg(0), Deg(90), Deg(100) }

CTLons == { Deg(10), Deg(190) }

CTTimes == { Deg(0), Deg(5) }

\* no object has been constructed yet
InitCT ==
    /\ shape = Unused
    /\ qtree = Unused
    /\ otree = Unused
    /\ kdtree = Unused
    /\ fn_vals = Unused
    /\ last = [op |-> "init"]

\* x = Record(lon, lat): shape is x, and keeps its value when the call raises
NewRecord(lon, lat) ==
    /\ shape' = IF RecordRaises(lat) THEN shape ELSE Record(lon, lat, None)
    /\ last' = [op |-> "Record", lats |-> << lat >>,
                raised |-> IF RecordRaises(lat) THEN "LatitudeError" ELSE None]
    /\ UNCHANGED <<qtree, otree, kdtree, fn_vals>>

NewSpaceTimeRecord(lon, lat, datetime) ==
    /\ shape' = IF SpaceTimeRecordRaises(lat) THEN shape
                ELSE SpaceTimeRecord(lon, lat, datetime, None)
    /\ last' = [op |-> "SpaceTimeRecord", lats |-> << lat >>,
                raised |-> IF SpaceTimeRecordRaises(lat)
                           THEN "LatitudeError" ELSE None]
    /\ UNCHANGED <<qtree, otree, kdtree, fn_vals>>

NewRectangle(west, east, south, north) ==
    /\ shape' = IF RectangleRaises(south, north) THEN shape
                ELSE Rectangle(west, east, south, north)
    /\ last' = [op |-> "Rectangle", lats |-> << south, north >>,
                raised |-> IF RectangleRaises(south, north)
                           THEN "LatitudeError" ELSE None]
    /\ UNCHANGED <<qtree, otree, kdtree, fn_vals>>

\* the LatitudeError is raised before the dates are compared
NewSpaceTimeRectangle(west, east, south, north, start, end) ==
    /\ shape' = IF SpaceTimeRectangleRaises(south, north) THEN shape
                ELSE SpaceTimeRectangle(west, east, south, north, start, end)
    /\ last' = [op |-> "SpaceTimeRectangle", lats |-> << south, north >>,
                start |-> start, end |-> end,
                raised |-> IF SpaceTimeRectangleRaises(south, north)
                           THEN "LatitudeError" ELSE None,
                warned |-> IF SpaceTimeRectangleRaises(south, north) THEN None
                           ELSE SpaceTimeRectangleWarns(start, end)]
    /\ UNCHANGED <<qtree, otree, kdtree, fn_vals>>

NewSpaceTimeEllipse(lon, lat, a, b, theta, start, end) ==
    /\ shape' = SpaceTimeEllipse(lon, lat, a, b, theta, start, end)
    /\ last' = [op |-> "SpaceTimeEllipse", lats |-> << lat >>,
                start |-> start, end |-> end,
                raised |-> None,
                warned |-> SpaceTimeEllipseWarns(start, end)]
    /\ UNCHANGED <<qtree, otree, kdtree, fn_vals>>

NextCT ==
    \/ \E lon \in CTLons, lat \in CTLats : NewRecord(lon, lat)
    \/ \E lon \in CTLons, lat \in CTLats, t \in CTTimes :
          NewSpaceTimeRecord(lon, lat, t)
    \/ \E east \in CTLons, south \in CTLats, north \in CTLats :
          NewRectangle(Deg(0), east, south, north)
    \/ \E south \in CTLats, north \in CTLats, start \in CTTimes, end \in CTTimes :
          NewSpaceTimeRectangle(Deg(0), Deg(10), south, north, start, end)
    \/ \E lon \in CTLons, theta \in { 0, 90 }, start \in CTTimes, end \in CTTimes :
          NewSpaceTimeEllipse(lon, Deg(0), Deg(5), Deg(4), theta, start, end)

SpecCT == InitCT /\ [][NextCT]_vars

\* a latitude outside [-90, 90]
BadLat(lat) == lat < Deg(-90) \/ lat > Deg(90)

\* C15: constructing a Record, SpaceTimeRecord, Rectangle or
\* SpaceTimeRectangle with a latitude (lat, south or north) outside
\* [-90, 90] raises LatitudeError, and a constructed Rectangle has
\* -90 <= south and north <= 90
C15_LatitudeError ==
    last.op \in { "Record", "SpaceTimeRecord", "Rectangle", "SpaceTimeRectangle" } =>
        /\ (\E i \in 1..Len(last.lats) : BadLat(last.lats[i])) =>
               last.raised = "LatitudeError"
        /\ (last.op \in { "Rectangle", "SpaceTimeRectangle" } /\ last.raised = None) =>
               (Deg(-90) <= shape.south /\ shape.north <= Deg(90))

\* C16: constructing a SpaceTimeRectangle or a SpaceTimeEllipse with
\* end < start raises nothing, issues a DateWarning and swaps the two, and
\* every constructed date-ranged shape has start <= end
C16_DateWarning ==
    (last.op \in { "SpaceTimeRectangle", "SpaceTimeEllipse" }
         /\ \A i \in 1..Len(last.lats) : ~BadLat(last.lats[i])) =>
        /\ last.raised = None
        /\ shape.start <= shape.end
        /\ last.end < last.start =>
              /\ last.warned = "DateWarning"
              /\ shape.start = last.end
              /\ shape.end = last.start

(***************************************************************************)
(* KDTree construction: KDTree(points, max_depth = m)                      *)
(***************************************************************************)
\* positions that repeat a longitude or a latitude
KBRecords ==
    { Record(Deg(1), Deg(0), None),
      Record(Deg(1), Deg(1), None),
      Record(Deg(1), Deg(2), None),
      Record(Deg(2), Deg(0), None) }

\* the values of max_depth given to the constructor
KBMaxDepths == { 1, DefaultMaxDepth }

InitKB ==
    /\ kdtree = KDTree(<< >>, 0, DefaultMaxDepth)
    /\ qtree = Unused
    /\ otree = Unused
    /\ fn_vals = Unused
    /\ shape = Unused
    /\ last = [op |-> "init"]

\* kdtree = KDTree(points, max_depth = max_depth)
KDBuild(points, max_depth) ==
    /\ kdtree' = KDTree(points, 0, max_depth)
    /\ last' = [op |-> "build", points |-> points, max_depth |-> max_depth]
    /\ UNCHANGED <<qtree, otree, fn_vals, shape>>

NextKB ==
    \E points \in ListsUpTo(KBRecords, MaxKDBuild), max_depth \in KBMaxDepths :
        KDBuild(points, max_depth)

\* construction only
SpecKB == InitKB /\ [][NextKB]_vars

\* the leaves of a KDTree: the depth and the points of each
RECURSIVE Leaves(_)
Leaves(self) ==
    IF ~self.split THEN { [depth |-> self.depth, points |-> self.points] }
    ELSE Leaves(self.child_left) \cup Leaves(self.child_right)

\* the nodes of a KDTree that split
RECURSIVE SplitNodes(_)
SplitNodes(self) ==
    IF ~self.split THEN { }
    ELSE { self } \cup SplitNodes(self.child_left)
                  \cup SplitNodes(self.child_right)

\* C17: a KDTree built with max_depth = m, m >= 1, has no leaf deeper than m
C17_LeafWithinMaxDepth ==
    (last.op = "build" /\ last.max_depth >= 1) =>
        \A leaf \in Leaves(kdtree) : leaf.depth <= last.max_depth

\* no leaf of the tree lies at max_depth
MaxDepthNotReached ==
    \A leaf \in Leaves(kdtree) : leaf.depth < last.max_depth

\* C18: a KDTree that is built without reaching max_depth is balanced: the
\* depths of two leaves differ by at most one, and so do their numbers of
\* points
C18_BalancedAtConstruction ==
    (last.op = "build" /\ MaxDepthNotReached) =>
        \A l1, l2 \in Leaves(kdtree) :
            /\ Abs(l1.depth - l2.depth) <= 1
            /\ Abs(Len(l1.points) - Len(l2.points)) <= 1

\* C19: a node that splits during construction gives a non-empty list of
\* points to its right child and to its left child
C19_NoEmptyChild ==
    (last.op = "build" /\ Len(last.points) >= 2) =>
        \A node \in SplitNodes(kdtree) :
            /\ KPoints(node.child_right) # << >>
            /\ KPoints(node.child_left) # << >>

(***************************************************************************)
(* The order of the result lists: insert, query, query_ellipse,            *)
(* nearby_points, with the sequence of the successful inserts              *)
(***************************************************************************)
\* one position in each quadrant of the boundary of the tests
IORecords ==
    { Record(Deg(5), Deg(6), None),
      Record(Deg(15), Deg(6), None),
      Record(Deg(5), Deg(2), None),
      Record(Deg(15), Deg(2), None) }

IOSpaceTimeRecords ==
    { SpaceTimeRecord(p.lon, p.lat, Deg(3), None) : p \in IORecords }

IOQuadTrees ==
    { QuadTree(Rectangle(Deg(0), Deg(20), Deg(0), Deg(8)), 1, 0, NoMaxDepth) }

IOOctTrees ==
    { OctTree(SpaceTimeRectangle(Deg(0), Deg(20), Deg(0), Deg(8),
                                 Deg(0), Deg(16)), 1, 0, NoMaxDepth) }

\* the whole boundary, and its southern half
IORects ==
    { Rectangle(Deg(0), Deg(20), Deg(0), Deg(8)),
      Rectangle(Deg(0), Deg(20), Deg(0), Deg(4)) }

IOSpaceTimeRects ==
    { SpaceTimeRectangle(r.west, r.east, r.south, r.north, Deg(0), Deg(16)) :
        r \in IORects }

IOEllipses == { Ellipse(Deg(10), Deg(4), Deg(10), Deg(6), 90) }

IONear == { <<Record(Deg(10), Deg(4), None), Deg(10)>> }

\* last.inserted: the records whose insert returned True, in that order
InitIO ==
    /\ \/ qtree \in IOQuadTrees /\ otree = Unused
       \/ otree \in IOOctTrees /\ qtree = Unused
    /\ kdtree = Unused
    /\ fn_vals = Unused
    /\ shape = Unused
    /\ last = [op |-> "init", inserted |-> << >>]

\* the records given to insert are different records
IOQTInsert(point) ==
    /\ qtree # Unused
    /\ Len(AllPoints(qtree)) < MaxPoints
    /\ ~InList(point, last.inserted)
    /\ LET r == QInsert(qtree, point)
       IN /\ qtree' = r.tree
          /\ last' = [op |-> "insert", point |-> point, ret |-> r.ret,
                      inserted |-> IF r.ret THEN Append(last.inserted, point)
                                   ELSE last.inserted]
    /\ UNCHANGED <<otree, kdtree, fn_vals, shape>>

IOOTInsert(point) ==
    /\ otree # Unused
    /\ Len(AllPoints(otree)) < MaxPoints
    /\ ~InList(point, last.inserted)
    /\ LET r == OInsert(otree, point)
       IN /\ otree' = r.tree
          /\ last' = [op |-> "insert", point |-> point, ret |-> r.ret,
                      inserted |-> IF r.ret THEN Append(last.inserted, point)
                                   ELSE last.inserted]
    /\ UNCHANGED <<qtree, kdtree, fn_vals, shape>>

IOQTQuery(rect) ==
    /\ qtree # Unused
    /\ last' = [op |-> "query", ret |-> QQuery(qtree, rect, << >>),
                inserted |-> last.inserted]
    /\ UNCHANGED <<qtree, otree, kdtree, fn_vals, shape>>

IOOTQuery(rect) ==
    /\ otree # Unused
    /\ last' = [op |-> "query", ret |-> OQuery(otree, rect, << >>),
                inserted |-> last.inserted]
    /\ UNCHANGED <<qtree, otree, kdtree, fn_vals, shape>>

IOQTQueryEllipse(e) ==
    /\ qtree # Unused
    /\ last' = [op |-> "query_ellipse", ret |-> QQueryEllipse(qtree, e, << >>),
                inserted |-> last.inserted]
    /\ UNCHANGED <<qtree, otree, kdtree, fn_vals, shape>>

IOQTNearbyPoints(point, dist) ==
    /\ qtree # Unused
    /\ last' = [op |-> "nearby_points",
                ret |-> QNearbyPoints(qtree, point, dist, << >>),
                inserted |-> last.inserted]
    /\ UNCHANGED <<qtree, otree, kdtree, fn_vals, shape>>

NextIO ==
    \/ \E point \in IORecords : IOQTInsert(point)
    \/ \E point \in IOSpaceTimeRecords : IOOTInsert(point)
    \/ \E rect \in IORects : IOQTQuery(rect)
    \/ \E rect \in IOSpaceTimeRects : IOOTQuery(rect)
    \/ \E e \in IOEllipses : IOQTQueryEllipse(e)
    \/ \E q \in IONear : IOQTNearbyPoints(q[1], q[2])

SpecIO == InitIO /\ [][NextIO]_vars

\* the place of a record in the sequence of the inserts
IndexIn(point, points) ==
    CHOOSE i \in 1..Len(points) : RecordEq(points[i], point)

\* C20: the result of query, query_ellipse and nearby_points lists the
\* records in the order of their insertion
C20_InsertionOrder ==
    last.op \in { "query", "query_ellipse", "nearby_points" } =>
        \A i, j \in 1..Len(last.ret) :
            i < j => IndexIn(last.ret[i], last.inserted)
                         < IndexIn(last.ret[j], last.inserted)

(***************************************************************************)
(* Invariants of the stored records and of the nodes                       *)
(***************************************************************************)
\* boundary.contains(point), for the Rectangle of a QuadTree and for the
\* SpaceTimeRectangle of an OctTree
BoundaryContains(boundary, point) ==
    IF "start" \in DOMAIN boundary
    THEN STContains(boundary, point)
    ELSE Contains(boundary, point)

\* every record stored in node self or below it is contained in each of the
\* boundaries above (the boundaries of the ancestors of self) and in the
\* boundary of the node that stores it
RECURSIVE StoredWithin(_, _)
StoredWithin(self, above) ==
    LET boundaries == Append(above, self.boundary)
    IN /\ \A i \in 1..Len(self.points), k \in 1..Len(boundaries) :
              BoundaryContains(boundaries[k], self.points[i])
       /\ \A c \in 1..Len(self.children) :
              StoredWithin(self.children[c], boundaries)

\* C21: every stored record is contained in the boundary of the node that
\* stores it and in the boundary of every ancestor of that node
C21_StoredWithinAncestors == StoredWithin(Tree, << >>)

\* a record is stored two levels below the root
C21_Witness ==
    /\ Tree.divided
    /\ \E i \in 1..Len(Tree.children) :
          /\ Tree.children[i].divided
          /\ \E j \in 1..Len(Tree.children[i].children) :
                Len(Tree.children[i].children[j].points) > 0

(***************************************************************************)
(* The children made by divide()                                           *)
(***************************************************************************)
\* the halves that the name of child i stands for, in the order of the
\* children: northwest, northeast, southwest, southeast (QuadTree), and these
\* four with back, then with fwd (OctTree)
Octant(i) ==
    [north |-> i \in { 1, 2, 5, 6 },
     west  |-> i \in { 1, 3, 5, 7 },
     back  |-> i <= 4]

\* the longitude halfway from west to east, going east
MidLon(b) ==
    IF b.west <= b.east THEN Half(b.west + b.east)
    ELSE FixLon(Half(b.west + b.east + Deg(360)))

MidLat(b) == Half(b.south + b.north)

MidDatetime(b) == Half(b.start + b.end)

\* node c is a child made by divide() of node self for the halves o
IsChildFor(c, self, o) ==
    LET b == self.boundary
    IN /\ c.boundary.west  = (IF o.west THEN b.west ELSE MidLon(b))
       /\ c.boundary.east  = (IF o.west THEN MidLon(b) ELSE b.east)
       /\ c.boundary.south = (IF o.north THEN MidLat(b) ELSE b.south)
       /\ c.boundary.north = (IF o.north THEN b.north ELSE MidLat(b))
       /\ "start" \in DOMAIN b =>
             /\ c.boundary.start = (IF o.back THEN b.start ELSE MidDatetime(b))
             /\ c.boundary.end   = (IF o.back THEN MidDatetime(b) ELSE b.end)
       /\ c.depth = self.depth + 1
       /\ c.capacity = self.capacity
       /\ c.max_depth = self.max_depth
       /\ c.points = << >>
       /\ ~c.divided

\* C22: divide() makes four children (QuadTree) or eight (OctTree); the
\* boundary of each is the product of the halves its name stands for, its
\* depth is the depth of the parent plus one, its capacity and max_depth are
\* the parent's, and it holds no points
C22_DivideProduct ==
    Tree.divided =>
        /\ Len(Tree.children) = (IF qtree # Unused THEN 4 ELSE 8)
        /\ \A i \in 1..Len(Tree.children) :
              IsChildFor(Tree.children[i], Tree, Octant(i))

\* an OctTree over a boundary across the antimeridian has divided
C22_Witness ==
    /\ otree # Unused
    /\ otree.divided
    /\ otree.boundary.east < otree.boundary.west
    /\ last.op = "divide"

(***************************************************************************)
(* intersects() as a state machine: construction, intersects               *)
(***************************************************************************)
\* rectangles of every width between the longitudes of ShapeLons (west = east
\* included), and rectangles that touch or miss these in latitude
IXRects ==
    ShapeRects
    \cup { Rectangle(Deg(0), Deg(80), Deg(10), Deg(30)),
           Rectangle(Deg(0), Deg(80), Deg(20), Deg(30)) }

\* boxes that overlap, touch or miss each other in time
IXSpaceTimeRects ==
    { SpaceTimeRectangle(w, e, Deg(-10), Deg(10), t[1], t[2]) :
        w \in { Deg(0), Deg(170) }, e \in { Deg(-170), Deg(80) },
        t \in { <<Deg(0), Deg(4)>>, <<Deg(4), Deg(8)>>, <<Deg(6), Deg(8)>> } }

\* positions at, between and beyond the edges of the rectangles
IXLons ==
    { Deg(-180), Deg(-175), Deg(-170), Deg(-140), Deg(-100), Deg(-50), Deg(0),
      Deg(40), Deg(80), Deg(100), Deg(170), Deg(175) }

IXLats == { Deg(-10), Deg(0), Deg(10), Deg(20), Deg(30), Deg(40) }

IXTimes == { Deg(0), Deg(2), Deg(4), Deg(6), Deg(7), Deg(8) }

IXPoints == { Record(lon, lat, None) : lon \in IXLons, lat \in IXLats }

IXSpaceTimePoints ==
    { SpaceTimeRecord(lon, lat, t, None) :
        lon \in IXLons, lat \in IXLats, t \in IXTimes }

InitIX ==
    /\ shape \in IXRects \cup IXSpaceTimeRects
    /\ qtree = Unused
    /\ otree = Unused
    /\ kdtree = Unused
    /\ fn_vals = Unused
    /\ last = [op |-> "init"]

\* shape.intersects(other), and other.intersects(shape) as last.rev
RectIntersects(other) ==
    /\ "start" \notin DOMAIN shape
    /\ last' = [op |-> "intersects", other |-> other,
                ret |-> Intersects(shape, other),
                rev |-> Intersects(other, shape)]
    /\ UNCHANGED <<qtree, otree, kdtree, fn_vals, shape>>

STRectIntersects(other) ==
    /\ "start" \in DOMAIN shape
    /\ last' = [op |-> "intersects", other |-> other,
                ret |-> STIntersects(shape, other),
                rev |-> STIntersects(other, shape)]
    /\ UNCHANGED <<qtree, otree, kdtree, fn_vals, shape>>

NextIX ==
    \/ \E other \in IXRects : RectIntersects(other)
    \/ \E other \in IXSpaceTimeRects : STRectIntersects(other)

SpecIX == InitIX /\ [][NextIX]_vars

\* some record is contained in both a and b
SharedPoint(a, b) ==
    IF "start" \in DOMAIN a
    THEN \E p \in IXSpaceTimePoints : STContains(a, p) /\ STContains(b, p)
    ELSE \E p \in IXPoints : Contains(a, p) /\ Contains(b, p)

\* C23: a.intersects(b) is True exactly when some point is contained in both
\* a and b, and a.intersects(b) = b.intersects(a)
C23_IntersectsIffSharedPoint ==
    last.op = "intersects" =>
        /\ last.ret <=> SharedPoint(shape, last.other)
        /\ last.ret = last.rev

(***************************************************************************)
(* The child that takes a record                                           *)
(***************************************************************************)
\* the children of node self whose boundary contains point
Fits(self, point) ==
    { i \in 1..Len(self.children) :
        BoundaryContains(self.children[i].boundary, point) }

\* the first of them, in the order of the children
FirstFit(self, point) ==
    CHOOSE k \in Fits(self, point) : \A j \in Fits(self, point) : k <= j

\* node old has become node new by a successful insert of point: a node with
\* room (or at max_depth) has appended the record; a full node has handed it
\* to the first child whose boundary contains it, which has done the same,
\* and the other children hold what they held
RECURSIVE InsertedFirstFit(_, _, _)
InsertedFirstFit(old, new, point) ==
    IF AtMaxDepth(old) \/ Len(old.points) < old.capacity
    THEN /\ new.points = Append(old.points, point)
         /\ new.children = old.children
    ELSE /\ new.points = old.points
         /\ Fits(new, point) # { }
         /\ LET k == FirstFit(new, point)
                before(i) == IF old.divided THEN old.children[i]
                             ELSE [new.children[i] EXCEPT !.points = << >>]
            IN /\ \A i \in 1..Len(new.children) :
                      i # k => new.children[i] = before(i)
               /\ InsertedFirstFit(before(k), new.children[k], point)

\* a boundary that is 340 degrees wide, with its centre at longitude -90, and
\* the boundary of the tests
FFBoundaries ==
    { Rectangle(Deg(100), Deg(80), Deg(0), Deg(8)),
      Rectangle(Deg(0), Deg(20), Deg(0), Deg(8)) }

FFQuadTrees == { QuadTree(b, 1, 0, NoMaxDepth) : b \in FFBoundaries }

FFOctTrees ==
    { OctTree(SpaceTimeRectangle(b.west, b.east, b.south, b.north,
                                 Deg(0), Deg(16)), 1, 0, NoMaxDepth) :
        b \in FFBoundaries }

\* records at the centre of a boundary, on an edge shared by children, and
\* inside one child
FFRecords ==
    { Record(Deg(-90), Deg(5), None),
      Record(Deg(-90), Deg(6), None),
      Record(Deg(10), Deg(5), None),
      Record(Deg(10), Deg(4), None) }

FFSpaceTimeRecords ==
    { SpaceTimeRecord(p.lon, p.lat, t, None) :
        p \in FFRecords, t \in { Deg(8) } }

InitFF ==
    /\ \/ qtree \in FFQuadTrees /\ otree = Unused
       \/ otree \in FFOctTrees /\ qtree = Unused
    /\ kdtree = Unused
    /\ fn_vals = Unused
    /\ shape = Unused
    /\ last = [op |-> "init"]

NextFF ==
    \/ \E point \in FFRecords : QTInsert(point)
    \/ \E point \in FFSpaceTimeRecords : OTInsert(point)

\* construction and insert
SpecFF == InitFF /\ [][NextFF]_vars

\* C24: a full node (not at max_depth) hands the record to the first child,
\* in the order NW, NE, SW, SE (back, then fwd), whose boundary contains it,
\* and to no later child
C24_FirstChildThatContains ==
    [][ (last'.op = "insert" /\ last'.ret) =>
            InsertedFirstFit(Tree, Tree', last'.point) ]_vars

(***************************************************************************)
(* capacity and max_depth                                                  *)
(***************************************************************************)
\* the depth of node self is its max_depth (max_depth is set)
DepthIsMaxDepth(self) ==
    self.max_depth # NoMaxDepth /\ self.depth = self.max_depth[1]

\* every node of the tree below and including self that is not at max_depth
\* holds at most capacity records in its own points list
RECURSIVE WithinCapacity(_)
WithinCapacity(self) ==
    /\ ~DepthIsMaxDepth(self) => Len(self.points) <= self.capacity
    /\ \A i \in 1..Len(self.children) : WithinCapacity(self.children[i])

\* C25: every node whose depth differs from max_depth, and every node when
\* max_depth is unset, holds at most capacity records in its points list
C25_WithinCapacity == WithinCapacity(Tree)

\* the root of a tree with max_depth set is full and has handed the record
\* of the last insert to a child
C25_Witness ==
    /\ last.op = "insert"
    /\ last.ret
    /\ Tree.max_depth # NoMaxDepth
    /\ Tree.divided
    /\ Len(Tree.points) = Tree.capacity
    /\ \E i \in 1..Len(Tree.children) :
          InList(last.point, Tree.children[i].points)

(***************************************************************************)
(* Trees constructed with max_depth = m: construction, insert              *)
(***************************************************************************)
\* the values of max_depth given to the constructor
MDMaxDepths == { 0, 1, 2 }

MDQuadTrees ==
    { QuadTree(Rectangle(Deg(0), Deg(20), Deg(0), Deg(8)), 1, 0, <<m>>) :
        m \in MDMaxDepths }

MDOctTrees ==
    { OctTree(SpaceTimeRectangle(Deg(0), Deg(20), Deg(0), Deg(8),
                                 Deg(0), Deg(16)), 1, 0, <<m>>) :
        m \in MDMaxDepths }

\* records of one quadrant of the quadrant to the south-east, and a record
\* outside the boundary
MDRecords ==
    { Record(Deg(13), Deg(2), None),
      Record(Deg(14), Deg(1), None),
      Record(Deg(11), Deg(1), None),
      Record(Deg(30), Deg(2), None) }

MDSpaceTimeRecords ==
    { SpaceTimeRecord(p.lon, p.lat, Deg(3), None) : p \in MDRecords }

InitMD ==
    /\ \/ qtree \in MDQuadTrees /\ otree = Unused
       \/ otree \in MDOctTrees /\ qtree = Unused
    /\ kdtree = Unused
    /\ fn_vals = Unused
    /\ shape = Unused
    /\ last = [op |-> "init"]

NextMD ==
    \/ \E point \in MDRecords : QTInsert(point)
    \/ \E point \in MDSpaceTimeRecords : OTInsert(point)

\* construction and insert
SpecMD == InitMD /\ [][NextMD]_vars

\* the depths of the nodes of the tree
RECURSIVE NodeDepths(_)
NodeDepths(self) ==
    { self.depth }
    \cup UNION { NodeDepths(self.children[i]) : i \in 1..Len(self.children) }

\* C26: in a tree constructed with max_depth = m, m >= 0, no node is deeper
\* than m, and an insert of a record inside the boundary of the root returns
\* True
C26_NoNodeBelowMaxDepth ==
    Tree.max_depth # NoMaxDepth =>
        /\ \A d \in NodeDepths(Tree) : d <= Tree.max_depth[1]
        /\ (last.op = "insert" /\ BoundaryContains(Tree.boundary, last.point))
               => last.ret

(***************************************************************************)
(* The shadow point of KDTree.query                                        *)
(***************************************************************************)
\* C27: the second pass of query(p) searches from a point whose longitude is
\* p.lon + 360 (p.lon < 0) or p.lon - 360 (otherwise), not folded back to
\* p.lon, and whose latitude is p.lat
C27_ShadowAcrossDateline ==
    last.op = "query" =>
        /\ ShadowPoint(last.point).lat = last.point.lat
        /\ ShadowPoint(last.point).lon =
               (IF last.point.lon < 0 THEN last.point.lon + Deg(360)
                ELSE last.point.lon - Deg(360))
        /\ ShadowPoint(last.point).lon # last.point.lon

(***************************************************************************)
(* The partition of a KDTree                                               *)
(***************************************************************************)
\* every node that splits has the records with split-axis value
\* <= partition_value in its left subtree and the records with value
\* > partition_value in its right subtree
RECURSIVE Partitioned(_)
Partitioned(self) ==
    self.split =>
        /\ \A i \in 1..Len(KPoints(self.child_left)) :
              GetAttr(KPoints(self.child_left)[i], self.variable)
                  <= self.partition_value
        /\ \A i \in 1..Len(KPoints(self.child_right)) :
              GetAttr(KPoints(self.child_right)[i], self.variable)
                  > self.partition_value
        /\ Partitioned(self.child_left)
        /\ Partitioned(self.child_right)

\* C28: after construction and after every insert and delete, each node that
\* splits satisfies the partition invariant
C28_PartitionInvariant == Partitioned(kdtree)

(***************************************************************************)
(* Nodes are never merged; a refused insert                                *)
(***************************************************************************)
\* every node of old that has divided is divided in new, with children of
\* the same boundaries, and so on below
RECURSIVE StaysDivided(_, _)
StaysDivided(old, new) ==
    old.divided =>
        /\ new.divided
        /\ Len(new.children) = Len(old.children)
        /\ \A i \in 1..Len(old.children) :
              /\ new.children[i].boundary = old.children[i].boundary
              /\ StaysDivided(old.children[i], new.children[i])

\* C29: a node that has divided stays divided through every insert and
\* remove, and its children keep their boundaries
C29_NeverMerged == [][ StaysDivided(Tree, Tree') ]_vars

\* the last record of a divided tree has been removed: every node is empty
C29_Witness ==
    /\ last.op = "remove"
    /\ last.ret
    /\ Tree.divided
    /\ StoredPoints = << >>

\* C30: an insert that returns False leaves the tree as it was
C30_RefusedInsertNoChange ==
    [][ (last'.op = "insert" /\ ~last'.ret) => Tree' = Tree ]_vars

====
